---------------------------- MODULE Spec2Model ----------------------------
(***************************************************************************)
(* Model of the PDF extraction pipeline of src/services.py:                *)
(*   whisper_extract      the job poller (submit, poll, retrieve, cleanup) *)
(*   clean_json_response  the response sanitizer                           *)
(*   extract_from_pdf     the structuring pipeline                         *)
(*                                                                         *)
(* Texts are TLA+ strings.  A TLA+ string literal cannot hold a backtick,  *)
(* so the character ' stands for the backtick throughout: "'''" is the     *)
(* markdown fence marker of three backticks.                               *)
(***************************************************************************)
EXTENDS Integers, Sequences, FiniteSets, TLC

VARIABLES
    pc,             \* position of the invocation of extract_from_pdf
    tmp_exists,     \* the temp file named tmp_path exists on the filesystem
    whisper_hash,   \* job handle returned by client.whisper
    attempt,        \* loop variable of the polling loop
    poll_interval,  \* in half seconds: 2 is 1 s, 6 is 3 s
    status,         \* the last dict returned by client.whisper_status
    exc,            \* the exception in flight, or NoExc
    text,           \* the value returned by whisper_extract
    result,         \* the dict returned by extract_from_pdf
    retval,         \* the value of the return statement of whisper_extract
    calls,          \* how many times each collaborator was called
    hist,           \* what the collaborators answered (history, not program state)
    san,            \* a run of clean_json_response on its own (SpecSanitizer)
    tasks,          \* two requests in flight: position, exception, text, result
    frames,         \* the local variables of their calls of whisper_extract
    files,          \* the temp directory: path -> the request whose bytes it holds
    env,            \* the services: answers per document, jobs, checks per job
    sched           \* the event loop: which request's coroutine is running

\* the state of the two concurrent requests (SpecThreads, SpecLoop)
conc_vars == <<tasks, frames, files, env, sched>>

vars == <<pc, tmp_exists, whisper_hash, attempt, poll_interval, status, exc,
          text, result, retval, calls, hist, san, conc_vars>>

-----------------------------------------------------------------------------
(* Python str helpers: str.strip and the three re.sub calls.               *)

FENCE == "'''"

\* str.isspace / the regex class \s, on the characters the model draws
IsSpace(c) == c \in {" ", "\n", "\t"}

CharAt(s, i) == SubSeq(s, i, i)

StartsWith(s, p) == Len(s) >= Len(p) /\ SubSeq(s, 1, Len(p)) = p

EndsWith(s, p) == Len(s) >= Len(p) /\ SubSeq(s, Len(s) - Len(p) + 1, Len(s)) = p

RECURSIVE LStrip(_)
LStrip(s) == IF Len(s) > 0 /\ IsSpace(CharAt(s, 1)) THEN LStrip(Tail(s)) ELSE s

RECURSIVE RStrip(_)
RStrip(s) ==
    IF Len(s) > 0 /\ IsSpace(CharAt(s, Len(s)))
    THEN RStrip(SubSeq(s, 1, Len(s) - 1))
    ELSE s

\* str.strip()
Strip(s) == RStrip(LStrip(s))

\* faulty variant: the pattern is not anchored to a fence, '^(```)?json\s*' and
\* '^`*\s*': a leading json word or lone backticks go too
RECURSIVE SubLeading_loose(_, _)
SubLeading_loose(p, s) ==
    IF StartsWith(s, p) THEN LStrip(SubSeq(s, Len(p) + 1, Len(s)))
    ELSE IF StartsWith(s, "json") THEN LStrip(SubSeq(s, 5, Len(s)))
    ELSE IF StartsWith(s, "'") THEN SubLeading_loose(p, Tail(s))
    ELSE s

\* re.sub('^' + p + '\s*', '', s): the pattern is anchored at the start, so
\* it matches at most once; \s* is greedy.
SubLeading(p, s) ==
    IF StartsWith(s, p) THEN LStrip(SubSeq(s, Len(p) + 1, Len(s))) ELSE s

\* re.sub('\s*```$', '', s) on a stripped s (no trailing newline for $ to
\* skip): the leftmost match starts at the whitespace run before the final
\* fence.
SubTrailingFence(s) ==
    IF EndsWith(s, FENCE) THEN RStrip(SubSeq(s, 1, Len(s) - Len(FENCE))) ELSE s

\* faulty variant: the trailing fence is never removed
clean_json_response_keeps_trailing(t) ==
    LET t1 == SubLeading(FENCE \o "json", Strip(t))
        t2 == SubLeading(FENCE, Strip(t1))
    IN  Strip(t2)

clean_json_response(t) ==
    LET t1 == SubLeading(FENCE \o "json", Strip(t))
        t2 == SubLeading(FENCE, Strip(t1))
        t3 == SubTrailingFence(Strip(t2))
    IN  Strip(t3)

\* s holds a run of three backticks somewhere
HasFence(s) == \E i \in 1..(Len(s) - 2) : SubSeq(s, i, i + 2) = FENCE

-----------------------------------------------------------------------------
(* Inputs of the sanitizer when it is run on its own.                      *)

MaxPieces == 4

Pieces == {FENCE, "json", " ", "\n", "{}", "'"}

\* every concatenation of at most n pieces
RECURSIVE Concats(_)
Concats(n) ==
    IF n = 0 THEN {""}
    ELSE LET prev == Concats(n - 1)
         IN  prev \cup {p \o q : p \in prev, q \in Pieces}

FreeTexts == Concats(MaxPieces)

\* One fenced code block: an opening fence with a language tag (or none), the
\* whitespace that ends the fence line, the content, a closing fence, and
\* whitespace around the whole.
Fenced(lead, tag, ws1, content, ws2, trail) ==
    lead \o FENCE \o tag \o ws1 \o content \o ws2 \o FENCE \o trail

Tags == {"", "json", "python", "JSON"}

Contents == {"", "x", "{\"a\":1}", " {} ", "json", "' x ''", "a\n'b'"}

Outer == {"", " ", "\n\t"}

Ws1 == {"\n", " ", "\n\n"}

Ws2 == {"", "\n"}

NoBlock == [tag |-> "-", content |-> "-"]

Blocks ==
    {[in |-> Fenced(l, g, w1, c, w2, t), block |-> [tag |-> g, content |-> c]] :
        l \in Outer, g \in Tags, w1 \in Ws1, c \in Contents, w2 \in Ws2, t \in Outer}

SanIdle == [pc |-> "idle", in |-> "", block |-> NoBlock, once |-> "", twice |-> ""]

SanInit ==
    \/ \E t \in FreeTexts :
          san = [pc |-> "input", in |-> t, block |-> NoBlock, once |-> "", twice |-> ""]
    \/ \E b \in Blocks :
          san = [pc |-> "input", in |-> b.in, block |-> b.block, once |-> "", twice |-> ""]

\* clean_json_response(text)
Clean ==
    /\ san.pc = "input"
    /\ san' = [san EXCEPT !.pc = "once", !.once = clean_json_response(san.in)]

\* clean_json_response applied to its own output
CleanAgain ==
    /\ san.pc = "once"
    /\ san' = [san EXCEPT !.pc = "twice", !.twice = clean_json_response(san.once)]

-----------------------------------------------------------------------------
(* json.loads, on the documents the model draws: null, true, false,        *)
(* integers, strings without escapes, arrays and objects.  A parsed value  *)
(* is a tagged record; a dict is the sequence of its <<key, value>> items  *)
(* in insertion order.                                                     *)

JNull == [t |-> "null"]

JBool(b) == [t |-> "bool", v |-> b]

JNum(lexeme) == [t |-> "num", v |-> lexeme]

JStr(str) == [t |-> "str", v |-> str]

JList(items) == [t |-> "list", v |-> items]

JObj(items) == [t |-> "obj", v |-> items]

Digits == {"0", "1", "2", "3", "4", "5", "6", "7", "8", "9"}

\* the parse of one value: ok, the value, the index after it, the diagnostic
Parsed(v, next) == [ok |-> TRUE, val |-> v, pos |-> next, err |-> ""]

ParseError(msg, at) == [ok |-> FALSE, val |-> JNull, pos |-> at, err |-> msg]

RECURSIVE SkipWs(_, _)
SkipWs(s, i) ==
    IF i <= Len(s) /\ CharAt(s, i) \in {" ", "\n", "\t", "\r"}
    THEN SkipWs(s, i + 1)
    ELSE i

\* index of the first character at or after i that is not in cs
RECURSIVE SkipWhile(_, _, _)
SkipWhile(s, i, cs) ==
    IF i <= Len(s) /\ CharAt(s, i) \in cs THEN SkipWhile(s, i + 1, cs) ELSE i

\* index of the first character at or after i that ends the scan of a string
\* body: the closing quote, a control character, a backslash, or Len(s) + 1
RECURSIVE StringStop(_, _)
StringStop(s, i) ==
    IF i > Len(s) \/ CharAt(s, i) \in {"\"", "\\", "\n", "\t", "\r"} THEN i
    ELSE StringStop(s, i + 1)

\* s[i] is the opening quote; the texts drawn hold no backslash escape
ParseString(s, i) ==
    LET j == StringStop(s, i + 1)
    IN  IF j > Len(s)
        THEN ParseError("Unterminated string starting at", i)
        ELSE IF CharAt(s, j) = "\""
        THEN Parsed(JStr(SubSeq(s, i + 1, j - 1)), j + 1)
        ELSE IF CharAt(s, j) = "\\"
        THEN ParseError("Invalid \\escape", j)
        ELSE ParseError("Invalid control character at", j)

ParseNumber(s, i) ==
    LET d == IF CharAt(s, i) = "-" THEN i + 1 ELSE i
        e == IF d <= Len(s) /\ CharAt(s, d) = "0"
             THEN d + 1
             ELSE SkipWhile(s, d, Digits)
    IN  IF e = d
        THEN ParseError("Expecting value", i)
        ELSE Parsed(JNum(SubSeq(s, i, e - 1)), e)

HasAt(s, i, lit) == i + Len(lit) - 1 <= Len(s) /\ SubSeq(s, i, i + Len(lit) - 1) = lit

\* dict[k] = v: a repeated key keeps its place and takes the last value
DictSet(items, k, v) ==
    IF \E n \in 1..Len(items) : items[n][1] = k
    THEN [n \in 1..Len(items) |-> IF items[n][1] = k THEN <<k, v>> ELSE items[n]]
    ELSE Append(items, <<k, v>>)

RECURSIVE ParseValue(_, _)
RECURSIVE ParseItems(_, _, _)
RECURSIVE ParseMembers(_, _, _)

\* the elements of an array after '[' or ',': i is at the next element
ParseItems(s, i, acc) ==
    LET r == ParseValue(s, i)
        k == SkipWs(s, r.pos)
    IN  IF ~r.ok THEN r
        ELSE IF k <= Len(s) /\ CharAt(s, k) = ","
        THEN ParseItems(s, SkipWs(s, k + 1), Append(acc, r.val))
        ELSE IF k <= Len(s) /\ CharAt(s, k) = "]"
        THEN Parsed(JList(Append(acc, r.val)), k + 1)
        ELSE ParseError("Expecting ',' delimiter", k)

\* the members of an object after '{' or ',': i is at the next key
ParseMembers(s, i, acc) ==
    IF ~(i <= Len(s) /\ CharAt(s, i) = "\"")
    THEN ParseError("Expecting property name enclosed in double quotes", i)
    ELSE
    LET key == ParseString(s, i)
        c == SkipWs(s, key.pos)
    IN  IF ~key.ok THEN key
        ELSE IF ~(c <= Len(s) /\ CharAt(s, c) = ":")
        THEN ParseError("Expecting ':' delimiter", c)
        ELSE
        LET r == ParseValue(s, SkipWs(s, c + 1))
            k == SkipWs(s, r.pos)
        IN  IF ~r.ok THEN r
            ELSE IF k <= Len(s) /\ CharAt(s, k) = ","
            THEN ParseMembers(s, SkipWs(s, k + 1), DictSet(acc, key.val.v, r.val))
            ELSE IF k <= Len(s) /\ CharAt(s, k) = "}"
            THEN Parsed(JObj(DictSet(acc, key.val.v, r.val)), k + 1)
            ELSE ParseError("Expecting ',' delimiter", k)

ParseValue(s, i) ==
    IF i > Len(s) THEN ParseError("Expecting value", i)
    ELSE IF CharAt(s, i) = "\"" THEN ParseString(s, i)
    ELSE IF CharAt(s, i) = "{" THEN
        LET k == SkipWs(s, i + 1)
        IN  IF k <= Len(s) /\ CharAt(s, k) = "}"
            THEN Parsed(JObj(<<>>), k + 1)
            ELSE ParseMembers(s, k, <<>>)
    ELSE IF CharAt(s, i) = "[" THEN
        LET k == SkipWs(s, i + 1)
        IN  IF k <= Len(s) /\ CharAt(s, k) = "]"
            THEN Parsed(JList(<<>>), k + 1)
            ELSE ParseItems(s, k, <<>>)
    ELSE IF HasAt(s, i, "null") THEN Parsed(JNull, i + 4)
    ELSE IF HasAt(s, i, "true") THEN Parsed(JBool(TRUE), i + 4)
    ELSE IF HasAt(s, i, "false") THEN Parsed(JBool(FALSE), i + 5)
    ELSE ParseNumber(s, i)

\* json.loads(s): one value with whitespace around it, and nothing after;
\* not ok stands for raising json.JSONDecodeError(err)
json_loads(s) ==
    LET r == ParseValue(s, SkipWs(s, 1))
        e == SkipWs(s, r.pos)
    IN  IF ~r.ok THEN r
        ELSE IF e <= Len(s) THEN ParseError("Extra data", e)
        ELSE r

-----------------------------------------------------------------------------
(* Exceptions.  An exception is its class name, str(e), and the place it   *)
(* was raised (origin: history, not read by the program).                  *)

NoExc == [type |-> "None", msg |-> "", origin |-> "none"]

Exc(type, msg, origin) == [type |-> type, msg |-> msg, origin |-> origin]

\* the classes of the method resolution order of a class, below BaseException
Mro(type) ==
    CASE type = "TimeoutError" -> {"TimeoutError", "OSError", "Exception"}
      [] type = "ConnectionError" -> {"ConnectionError", "OSError", "Exception"}
      [] type = "OSError" -> {"OSError", "Exception"}
      [] type = "RuntimeError" -> {"RuntimeError", "Exception"}
      [] type = "KeyError" -> {"KeyError", "LookupError", "Exception"}
      [] type = "AttributeError" -> {"AttributeError", "Exception"}
      [] type = "JSONDecodeError" -> {"JSONDecodeError", "ValueError", "Exception"}
      [] OTHER -> {type, "Exception"}

isinstance(e, cls) == cls \in Mro(e.type)

\* what a call of a remote client may raise: any Exception subclass, the
\* builtin TimeoutError and RuntimeError among them (KeyError: the lookup in
\* a reply that lacks the key)
ClientFaults == {"TimeoutError", "RuntimeError", "ConnectionError", "KeyError"}

ClientMsgs == {"boom"}

-----------------------------------------------------------------------------
(* The collaborators' answers.                                             *)

JobHandles == {"h1"}

StatusValues == {"processing", "pending", "queued", "processed", "failed"}

StatusMessages == {"bad scan", ""}

\* the dict of whisper_status: 'message' may be absent
StatusDicts ==
    {[status |-> v] : v \in StatusValues}
        \cup {[status |-> v, message |-> m] : v \in StatusValues, m \in StatusMessages}

NoStatus == [status |-> "-"]

RECURSIVE Repeat(_, _)
Repeat(c, n) ==
    IF n = 0 THEN ""
    ELSE IF n % 2 = 0 THEN LET h == Repeat(c, n \div 2) IN h \o h
    ELSE c \o Repeat(c, n - 1)

PreviewLen == 200

\* result_text of whisper_retrieve: shorter than, as long as and longer than
\* the preview
RetrievedTexts ==
    {"", "hello", Repeat("x", PreviewLen), Repeat("x", PreviewLen) \o "yz"}

FullRecord ==
    "{\"invoice_number\":\"INV-1\",\"date\":\"01 Jan 2024\",\"vendor\":\"Acme\","
        \o "\"total_amount\":\"100.00\",\"currency\":\"USD\"}"

\* response.text of generate_content
ModelResponses ==
    { "  '''json\n" \o FullRecord \o "\n'''  ",
      FullRecord,
      "{\"invoice_number\":null,\"date\":null,\"vendor\":\"Acme\","
          \o "\"total_amount\":null,\"currency\":null}",
      "not json at all",
      "''' '''{}",
      "42", "[]", "null", "\"Acme\"",
      "{\"vendor\":\"Acme\"}",
      "{\"invoice_number\":1,\"date\":[],\"vendor\":{},"
          \o "\"total_amount\":true,\"currency\":2}" }

-----------------------------------------------------------------------------
(* whisper_extract and extract_from_pdf.                                   *)

max_attempts == 60

NoResult == [success |-> "-"]

\* wait counts the time.sleep calls, last_wait is the argument of the last
\* one and waited the sum of all of them (half seconds); last is the last
\* remote call made
NoCalls == [submit |-> 0, status |-> 0, retrieve |-> 0, generate |-> 0,
            wait |-> 0, waited |-> 0, last_wait |-> 0, unlink |-> 0,
            last |-> "none"]

NoHist == [reported |-> 0, term_at |-> 0, retrieved |-> "", response |-> ""]

Min(a, b) == IF a <= b THEN a ELSE b

\* faulty variant: the whole text
Prefix_whole(s, n) == s

\* text[:n]
Prefix(s, n) == SubSeq(s, 1, Min(n, Len(s)))

PipeInit ==
    /\ pc = "tmp_create"
    /\ tmp_exists = FALSE
    /\ whisper_hash = ""
    /\ attempt = 0
    /\ poll_interval = 0
    /\ status = NoStatus
    /\ exc = NoExc
    /\ text = ""
    /\ result = NoResult
    /\ retval = ""
    /\ calls = NoCalls
    /\ hist = NoHist

pipe_vars == <<pc, tmp_exists, whisper_hash, attempt, poll_interval, status,
               exc, text, result, retval, calls, hist>>

\* line 29: tempfile.NamedTemporaryFile(delete=False, suffix=".pdf")
CreateTemp ==
    /\ pc = "tmp_create"
    /\ \/ /\ tmp_exists' = TRUE
          /\ pc' = "tmp_write"
          /\ exc' = exc
       \/ /\ tmp_exists' = FALSE
          /\ exc' = Exc("OSError", "No space left on device", "tmp_create")
          /\ pc' = "handle"
    /\ UNCHANGED <<whisper_hash, attempt, poll_interval, status, text, result,
                   retval, calls, hist, san, conc_vars>>

\* lines 30-31: tmp.write(pdf_bytes) and the close at the end of the with
\* block; delete=False, so a failing write leaves the file, and the
\* exception leaves whisper_extract before its try statement is entered
WriteTemp ==
    /\ pc = "tmp_write"
    /\ \/ /\ pc' = "submit"
          /\ exc' = exc
       \/ /\ exc' = Exc("OSError", "No space left on device", "tmp_write")
          /\ pc' = "handle"
    /\ UNCHANGED <<tmp_exists, whisper_hash, attempt, poll_interval, status,
                   text, result, retval, calls, hist, san, conc_vars>>

\* lines 34-39: client.whisper(file_path=tmp_path), result['whisper_hash']
Submit ==
    /\ pc = "submit"
    /\ calls' = [calls EXCEPT !.submit = @ + 1, !.last = "submit"]
    /\ \/ \E h \in JobHandles :
            /\ whisper_hash' = h
            /\ poll_interval' = 2
            /\ attempt' = 0
            /\ pc' = "status"
            /\ exc' = exc
       \/ \E f \in ClientFaults, m \in ClientMsgs :
            /\ exc' = Exc(f, m, "submit")
            /\ pc' = "finally"
            /\ UNCHANGED <<whisper_hash, poll_interval, attempt>>
    /\ UNCHANGED <<tmp_exists, status, text, result, retval, hist, san, conc_vars>>

\* faulty variant: status.get('message', '')
status_message_empty_default(st) ==
    IF "message" \in DOMAIN st THEN st.message ELSE ""

\* status.get('message', 'Unknown error')
status_message(st) ==
    IF "message" \in DOMAIN st THEN st.message ELSE "Unknown error"

\* faulty variant: the loop waits for a status the service never reports
is_processed_wrong_literal(st) == st.status = "completed"

\* the statuses that end the polling loop
is_processed(st) == st.status = "processed"

\* faulty variant: a 'failed' status does not end the loop
is_failed_wrong_literal(st) == st.status = "error"

is_failed(st) == st.status = "failed"

\* lines 41-49: one iteration of the loop up to the sleep
StatusCheck ==
    /\ pc = "status"
    /\ calls' = [calls EXCEPT !.status = @ + 1, !.last = "status"]
    /\ \/ \E st \in StatusDicts :
            /\ status' = st
            /\ hist' = [hist EXCEPT
                  !.reported = @ + 1,
                  !.term_at = IF @ = 0 /\ st.status \in {"processed", "failed"}
                              THEN calls.status + 1 ELSE @]
            /\ IF is_processed(st)
               THEN pc' = "retrieve" /\ exc' = exc
               ELSE IF is_failed(st)
               THEN /\ exc' = Exc("RuntimeError",
                                  "Whisperer failed: " \o status_message(st),
                                  "failed_status")
                    /\ pc' = "finally"
               ELSE pc' = "sleep" /\ exc' = exc
       \/ \E f \in ClientFaults, m \in ClientMsgs :
            /\ exc' = Exc(f, m, "status")
            /\ pc' = "finally"
            /\ UNCHANGED <<status, hist>>
    /\ UNCHANGED <<tmp_exists, whisper_hash, attempt, poll_interval, text,
                   result, retval, san, conc_vars>>

\* faulty variant: one iteration too many
loop_exhausted_off_by_one(i) == i >= max_attempts

\* range(max_attempts) is exhausted after the iteration with this index
loop_exhausted(i) == i + 1 >= max_attempts

\* faulty variant: no cap
next_interval_uncapped(p) == p + 1

\* faulty variant: min(poll_interval + 1, 3), as in the comment of line 51
next_interval_whole_seconds(p) == Min(p + 2, 6)

\* min(poll_interval + 0.5, 3), in half seconds
next_interval(p) == Min(p + 1, 6)

\* lines 52-55: time.sleep(poll_interval), the new interval, and the next
\* iteration or the TimeoutError after the loop
Sleep ==
    /\ pc = "sleep"
    /\ calls' = [calls EXCEPT !.wait = @ + 1, !.waited = @ + poll_interval,
                             !.last_wait = poll_interval]
    /\ poll_interval' = next_interval(poll_interval)
    /\ IF loop_exhausted(attempt)
       THEN /\ exc' = Exc("TimeoutError",
                          "PDF processing timed out after 2 minutes", "budget")
            /\ pc' = "finally"
            /\ attempt' = attempt
       ELSE /\ attempt' = attempt + 1
            /\ pc' = "status"
            /\ exc' = exc
    /\ UNCHANGED <<tmp_exists, whisper_hash, status, text, result, retval,
                   hist, san, conc_vars>>

\* lines 45-46: client.whisper_retrieve and resultx['extraction']['result_text']
Retrieve ==
    /\ pc = "retrieve"
    /\ calls' = [calls EXCEPT !.retrieve = @ + 1, !.last = "retrieve"]
    /\ \/ \E t \in RetrievedTexts :
            /\ retval' = t
            /\ hist' = [hist EXCEPT !.retrieved = t]
            /\ exc' = exc
       \/ \E f \in ClientFaults, m \in ClientMsgs :
            /\ exc' = Exc(f, m, "retrieve")
            /\ UNCHANGED <<retval, hist>>
    /\ pc' = "finally"
    /\ UNCHANGED <<tmp_exists, whisper_hash, attempt, poll_interval, status,
                   text, result, san, conc_vars>>

\* lines 57-62: the finally block; a failing os.unlink is swallowed.  Then
\* whisper_extract returns retval (line 94 binds it to text) or re-raises.
Finally ==
    /\ pc = "finally"
    /\ calls' = [calls EXCEPT !.unlink = @ + 1]
    /\ \/ tmp_exists' = FALSE
       \/ tmp_exists' = tmp_exists
    /\ IF exc = NoExc
       THEN text' = retval /\ pc' = "generate"
       ELSE text' = text /\ pc' = "handle"
    /\ UNCHANGED <<whisper_hash, attempt, poll_interval, status, exc, result,
                   retval, hist, san, conc_vars>>

\* str(e) of a json.JSONDecodeError, without its line and column
decode_error_str(r) == r.err \o " (char " \o ToString(r.pos - 1) \o ")"

\* faulty variant: the parse failure carries the response as received
parse_response_raw(response_text, extracted) ==
    LET cleaned_text == clean_json_response(response_text)
        r == json_loads(cleaned_text)
    IN  IF r.ok
        THEN [success |-> TRUE, data |-> r.val,
              raw_text_preview |-> Prefix(extracted, PreviewLen)]
        ELSE [success |-> FALSE, error |-> "Failed to parse JSON from Gemini",
              gemini_response |-> response_text,
              parse_error |-> decode_error_str(r),
              raw_text_preview |-> Prefix(extracted, PreviewLen)]

\* lines 118-135: clean, parse, and the result of either outcome
parse_response(response_text, extracted) ==
    LET cleaned_text == clean_json_response(response_text)
        r == json_loads(cleaned_text)
    IN  IF r.ok
        THEN [success |-> TRUE, data |-> r.val,
              raw_text_preview |-> Prefix(extracted, PreviewLen)]
        ELSE [success |-> FALSE, error |-> "Failed to parse JSON from Gemini",
              gemini_response |-> cleaned_text,
              parse_error |-> decode_error_str(r),
              raw_text_preview |-> Prefix(extracted, PreviewLen)]

\* lines 97-135: the prompt, client_genai.models.generate_content, and the
\* parse of response.text (None when the model returned no text part)
Generate ==
    /\ pc = "generate"
    /\ calls' = [calls EXCEPT !.generate = @ + 1, !.last = "generate"]
    /\ \/ \E f \in ClientFaults, m \in ClientMsgs :
            /\ exc' = Exc(f, m, "generate")
            /\ pc' = "handle"
            /\ UNCHANGED <<hist, result>>
       \/ /\ exc' = Exc("AttributeError",
                        "'NoneType' object has no attribute 'strip'", "sanitize")
          /\ pc' = "handle"
          /\ UNCHANGED <<hist, result>>
       \/ \E r \in ModelResponses :
            /\ hist' = [hist EXCEPT !.response = r]
            /\ result' = parse_response(r, text)
            /\ pc' = "returned"
            /\ exc' = exc
    /\ UNCHANGED <<tmp_exists, whisper_hash, attempt, poll_interval, status,
                   text, retval, san, conc_vars>>

\* faulty variant: no catch-all clause
except_clause_no_catch_all(e) ==
    IF isinstance(e, "TimeoutError") THEN "TimeoutError"
    ELSE IF isinstance(e, "RuntimeError") THEN "RuntimeError"
    ELSE "none"

\* lines 137-157: the except clause that takes e, if any
except_clause(e) ==
    IF isinstance(e, "TimeoutError") THEN "TimeoutError"
    ELSE IF isinstance(e, "RuntimeError") THEN "RuntimeError"
    ELSE IF isinstance(e, "Exception") THEN "Exception"
    ELSE "none"

\* faulty variant: the failure dicts carry "data": None
handler_result_with_data(e) ==
    CASE except_clause(e) = "TimeoutError" ->
            [success |-> FALSE, error |-> "PDF processing timeout", details |-> e.msg,
             data |-> JNull]
      [] except_clause(e) = "RuntimeError" ->
            [success |-> FALSE, error |-> "PDF processing failed", details |-> e.msg,
             data |-> JNull]
      [] except_clause(e) = "Exception" ->
            [success |-> FALSE, error |-> "Unexpected error", details |-> e.msg,
             type |-> e.type, data |-> JNull]
      [] OTHER -> NoResult

\* the dict the clause returns
handler_result(e) ==
    CASE except_clause(e) = "TimeoutError" ->
            [success |-> FALSE, error |-> "PDF processing timeout", details |-> e.msg]
      [] except_clause(e) = "RuntimeError" ->
            [success |-> FALSE, error |-> "PDF processing failed", details |-> e.msg]
      [] except_clause(e) = "Exception" ->
            [success |-> FALSE, error |-> "Unexpected error", details |-> e.msg,
             type |-> e.type]
      [] OTHER -> NoResult

\* lines 137-157: the exception reaches the try statement of extract_from_pdf
Handle ==
    /\ pc = "handle"
    /\ result' = handler_result(exc)
    /\ pc' = IF except_clause(exc) = "none" THEN "raised" ELSE "returned"
    /\ UNCHANGED <<tmp_exists, whisper_hash, attempt, poll_interval, status,
                   exc, text, retval, calls, hist, san, conc_vars>>

-----------------------------------------------------------------------------
(* Two requests in flight: threads (SpecThreads) or coroutines of one      *)
(* event loop (SpecLoop).  Each runs the statements of extract_from_pdf    *)
(* above; the temp directory and the two services are shared.              *)

Inv == {1, 2}

\* names tempfile.NamedTemporaryFile may pick: any that is not in use
Paths == {"/tmp/tmpa.pdf", "/tmp/tmpb.pdf"}

\* job handles the extraction service hands out, a fresh one for each submit
Handles == {"j1", "j2"}

\* what happens to the document of a request: how its job ends and at which
\* status check, or which call made for it faults
Script(end, at) == [end |-> end, at |-> at]

Scripts ==
    { Script("processed", 1), Script("processed", 2), Script("failed", 2),
      Script("never", 0), Script("create_fault", 0), Script("write_fault", 0),
      Script("submit_fault", 0), Script("status_fault", 1),
      Script("retrieve_fault", 1), Script("generate_fault", 1),
      Script("empty_answer", 1) }

\* the text the extraction service finds in the document of request d
DocText(d) == IF d = 1 THEN "Invoice INV-1 from Acme" ELSE "Receipt 7 from Bolt"

\* response.text of the structuring model for a prompt that holds text t
ModelAnswer(t) ==
    IF t = DocText(1) THEN "'''json\n{\"vendor\":\"Acme\"}\n'''"
    ELSE IF t = DocText(2) THEN "Sorry, no invoice in: " \o t
    ELSE "{}"

\* the status dict of a job with script s at its n-th status check
StatusAt(s, n) ==
    IF s.end = "failed" /\ n >= s.at
    THEN [status |-> "failed", message |-> "bad scan"]
    ELSE IF s.end \in {"processed", "retrieve_fault", "generate_fault",
                       "empty_answer"} /\ n >= s.at
    THEN [status |-> "processed"]
    ELSE [status |-> "processing"]

NoFrame == [tmp_path |-> "", whisper_hash |-> "", attempt |-> 0,
            poll_interval |-> 0, status |-> NoStatus, retval |-> ""]

\* own is the handle the request's submit returned, used the handles it
\* passed to whisper_status and whisper_retrieve, submits its submit calls
NoTask == [pc |-> "call", exc |-> NoExc, text |-> "", result |-> NoResult,
           own |-> "", used |-> {}, submits |-> 0]

ConcIdle ==
    /\ tasks = [i \in Inv |-> NoTask]
    /\ frames = [i \in Inv |-> NoFrame]
    /\ files = [p \in Paths |-> 0]
    /\ env = [script |-> [i \in Inv |-> Script("never", 0)],
              job_of |-> [h \in Handles |-> 0],
              checks |-> [h \in Handles |-> 0]]
    /\ sched = [loop |-> FALSE, running |-> 0]

\* faulty variant: tmp_path, whisper_hash and the loop variables are module
\* globals, one slot for all calls
frame_shared(i) == 1

\* each call of whisper_extract has its own local variables
frame(i) == i

Local(i) == frames[frame(i)]

\* faulty variant: the wait is a suspension point (await asyncio.sleep)
yields_on_sleep(p) == p \in {"read", "sleep"}

\* the steps of extract_pdf at which the coroutine can be suspended: the
\* await of file.read(); extract_from_pdf and its time.sleep are plain calls
yields(p) == p = "read"

\* the request may take a step: a thread always, a coroutine when the event
\* loop is running it
Holds(i) == ~sched.loop \/ sched.running = i

\* the event loop after request i did step p
Release(i, p) ==
    IF sched.loop /\ yields(p) THEN [sched EXCEPT !.running = 0] ELSE sched

\* the document a job handle stands for; 0 for a handle the service never
\* handed out
JobOf(h) == IF h \in Handles THEN env.job_of[h] ELSE 0

\* the request whose bytes the file at path p holds; 0 when there is none
FileAt(p) == IF p \in Paths THEN files[p] ELSE 0

ScriptOf(d) == IF d \in Inv THEN env.script[d] ELSE Script("unknown", 0)

UnknownJob == Exc("RuntimeError", "unknown whisper_hash", "status")

\* the event loop resumes a request that is not finished
Schedule(i) ==
    /\ sched.loop
    /\ sched.running = 0
    /\ tasks[i].pc \notin {"responded", "raised"}
    /\ sched' = [sched EXCEPT !.running = i]
    /\ UNCHANGED <<tasks, frames, files, env, pipe_vars, san>>

\* routes.py line 8: pdf_bytes = await file.read(); the read of a spooled
\* upload goes to a worker thread and suspends the coroutine, the read of an
\* in-memory one does not
ReadOf(i) ==
    /\ Holds(i)
    /\ tasks[i].pc = "read"
    /\ tasks' = [tasks EXCEPT ![i].pc = "call"]
    /\ sched' \in {sched, Release(i, "read")}
    /\ UNCHANGED <<frames, files, env, pipe_vars, san>>

\* routes.py line 9: extract_from_pdf(pdf_bytes) is entered
CallOf(i) ==
    /\ Holds(i)
    /\ tasks[i].pc = "call"
    /\ tasks' = [tasks EXCEPT ![i].pc = "tmp_create"]
    /\ sched' = Release(i, "call")
    /\ UNCHANGED <<frames, files, env, pipe_vars, san>>

\* CreateTemp for request i: the name is one no file has
CreateTempOf(i) ==
    /\ Holds(i)
    /\ tasks[i].pc = "tmp_create"
    /\ IF env.script[i].end = "create_fault"
       THEN /\ tasks' = [tasks EXCEPT
                  ![i].exc = Exc("OSError", "No space left on device", "tmp_create"),
                  ![i].pc = "handle"]
            /\ UNCHANGED <<frames, files>>
       ELSE \E p \in Paths :
              /\ files[p] = 0
              /\ files' = [files EXCEPT ![p] = i]
              /\ frames' = [frames EXCEPT ![frame(i)].tmp_path = p]
              /\ tasks' = [tasks EXCEPT ![i].pc = "tmp_write"]
    /\ sched' = Release(i, "tmp_create")
    /\ UNCHANGED <<env, pipe_vars, san>>

\* WriteTemp for request i
WriteTempOf(i) ==
    /\ Holds(i)
    /\ tasks[i].pc = "tmp_write"
    /\ IF env.script[i].end = "write_fault"
       THEN tasks' = [tasks EXCEPT
                  ![i].exc = Exc("OSError", "No space left on device", "tmp_write"),
                  ![i].pc = "handle"]
       ELSE tasks' = [tasks EXCEPT ![i].pc = "submit"]
    /\ sched' = Release(i, "tmp_write")
    /\ UNCHANGED <<frames, files, env, pipe_vars, san>>

\* Submit for request i: client.whisper(file_path=tmp_path) sends the bytes
\* of the file at tmp_path; the service answers with a handle of a new job
SubmitOf(i) ==
    /\ Holds(i)
    /\ tasks[i].pc = "submit"
    /\ LET d == FileAt(Local(i).tmp_path)
       IN  IF d = 0
           THEN /\ tasks' = [tasks EXCEPT
                      ![i].exc = Exc("FileNotFoundError", "No such file", "submit"),
                      ![i].pc = "finally", ![i].submits = @ + 1]
                /\ UNCHANGED <<frames, env>>
           ELSE IF ScriptOf(d).end = "submit_fault"
           THEN /\ tasks' = [tasks EXCEPT
                      ![i].exc = Exc("ConnectionError", "boom", "submit"),
                      ![i].pc = "finally", ![i].submits = @ + 1]
                /\ UNCHANGED <<frames, env>>
           ELSE \E h \in Handles :
                  /\ env.job_of[h] = 0
                  /\ env' = [env EXCEPT !.job_of[h] = d]
                  /\ frames' = [frames EXCEPT ![frame(i)].whisper_hash = h,
                                              ![frame(i)].poll_interval = 2,
                                              ![frame(i)].attempt = 0]
                  /\ tasks' = [tasks EXCEPT ![i].pc = "status", ![i].own = h,
                                            ![i].submits = @ + 1]
    /\ sched' = Release(i, "submit")
    /\ UNCHANGED <<files, pipe_vars, san>>

\* StatusCheck for request i: the service counts the checks of each job and
\* answers from the script of the job's document
StatusCheckOf(i) ==
    /\ Holds(i)
    /\ tasks[i].pc = "status"
    /\ LET h == Local(i).whisper_hash
           s == ScriptOf(JobOf(h))
           n == IF h \in Handles THEN env.checks[h] + 1 ELSE 0
           st == StatusAt(s, n)
           seen == tasks[i].used \cup {h}
       IN  /\ env' = IF h \in Handles THEN [env EXCEPT !.checks[h] = n] ELSE env
           /\ IF s.end = "unknown"
              THEN /\ tasks' = [tasks EXCEPT ![i].exc = UnknownJob,
                                             ![i].pc = "finally", ![i].used = seen]
                   /\ UNCHANGED frames
              ELSE IF s.end = "status_fault" /\ n = s.at
              THEN /\ tasks' = [tasks EXCEPT
                         ![i].exc = Exc("ConnectionError", "boom", "status"),
                         ![i].pc = "finally", ![i].used = seen]
                   /\ UNCHANGED frames
              ELSE /\ frames' = [frames EXCEPT ![frame(i)].status = st]
                   /\ IF is_processed(st)
                      THEN tasks' = [tasks EXCEPT ![i].pc = "retrieve",
                                                  ![i].used = seen]
                      ELSE IF is_failed(st)
                      THEN tasks' = [tasks EXCEPT
                              ![i].exc = Exc("RuntimeError",
                                             "Whisperer failed: " \o status_message(st),
                                             "failed_status"),
                              ![i].pc = "finally", ![i].used = seen]
                      ELSE tasks' = [tasks EXCEPT ![i].pc = "sleep",
                                                  ![i].used = seen]
    /\ sched' = Release(i, "status")
    /\ UNCHANGED <<files, pipe_vars, san>>

\* Sleep for request i: time.sleep blocks the thread that runs it
SleepOf(i) ==
    /\ Holds(i)
    /\ tasks[i].pc = "sleep"
    /\ IF loop_exhausted(Local(i).attempt)
       THEN /\ tasks' = [tasks EXCEPT
                  ![i].exc = Exc("TimeoutError",
                                 "PDF processing timed out after 2 minutes", "budget"),
                  ![i].pc = "finally"]
            /\ frames' = [frames EXCEPT
                  ![frame(i)].poll_interval = next_interval(@)]
       ELSE /\ tasks' = [tasks EXCEPT ![i].pc = "status"]
            /\ frames' = [frames EXCEPT
                  ![frame(i)].poll_interval = next_interval(@),
                  ![frame(i)].attempt = @ + 1]
    /\ sched' = Release(i, "sleep")
    /\ UNCHANGED <<files, env, pipe_vars, san>>

\* Retrieve for request i
RetrieveOf(i) ==
    /\ Holds(i)
    /\ tasks[i].pc = "retrieve"
    /\ LET h == Local(i).whisper_hash
           d == JobOf(h)
           seen == tasks[i].used \cup {h}
       IN  IF ScriptOf(d).end \in {"retrieve_fault", "unknown"}
           THEN /\ tasks' = [tasks EXCEPT
                      ![i].exc = Exc("ConnectionError", "boom", "retrieve"),
                      ![i].pc = "finally", ![i].used = seen]
                /\ UNCHANGED frames
           ELSE /\ tasks' = [tasks EXCEPT ![i].pc = "finally", ![i].used = seen]
                /\ frames' = [frames EXCEPT ![frame(i)].retval = DocText(d)]
    /\ sched' = Release(i, "retrieve")
    /\ UNCHANGED <<files, env, pipe_vars, san>>

\* Finally for request i: os.unlink(tmp_path) removes the file or fails,
\* and the failure is swallowed
FinallyOf(i) ==
    /\ Holds(i)
    /\ tasks[i].pc = "finally"
    /\ LET p == Local(i).tmp_path
       IN  \/ files' = [q \in Paths |-> IF q = p THEN 0 ELSE files[q]]
           \/ files' = files
    /\ IF tasks[i].exc = NoExc
       THEN tasks' = [tasks EXCEPT ![i].text = Local(i).retval,
                                   ![i].pc = "generate"]
       ELSE tasks' = [tasks EXCEPT ![i].pc = "handle"]
    /\ sched' = Release(i, "finally")
    /\ UNCHANGED <<frames, env, pipe_vars, san>>

\* Generate for request i: the model answers the prompt that holds the text
GenerateOf(i) ==
    /\ Holds(i)
    /\ tasks[i].pc = "generate"
    /\ IF env.script[i].end = "generate_fault"
       THEN tasks' = [tasks EXCEPT
                  ![i].exc = Exc("ConnectionError", "boom", "generate"),
                  ![i].pc = "handle"]
       ELSE IF env.script[i].end = "empty_answer"
       THEN tasks' = [tasks EXCEPT
                  ![i].exc = Exc("AttributeError",
                                 "'NoneType' object has no attribute 'strip'",
                                 "sanitize"),
                  ![i].pc = "handle"]
       ELSE tasks' = [tasks EXCEPT
                  ![i].result = parse_response(ModelAnswer(tasks[i].text),
                                               tasks[i].text),
                  ![i].pc = "returned"]
    /\ sched' = Release(i, "generate")
    /\ UNCHANGED <<frames, files, env, pipe_vars, san>>

\* Handle for request i
HandleOf(i) ==
    /\ Holds(i)
    /\ tasks[i].pc = "handle"
    /\ tasks' = [tasks EXCEPT
          ![i].result = handler_result(tasks[i].exc),
          ![i].pc = IF except_clause(tasks[i].exc) = "none"
                    THEN "raised" ELSE "returned"]
    /\ sched' = Release(i, "handle")
    /\ UNCHANGED <<frames, files, env, pipe_vars, san>>

\* routes.py line 10: the coroutine returns the response and ends
RespondOf(i) ==
    /\ sched.loop
    /\ sched.running = i
    /\ tasks[i].pc = "returned"
    /\ tasks' = [tasks EXCEPT ![i].pc = "responded"]
    /\ sched' = [sched EXCEPT !.running = 0]
    /\ UNCHANGED <<frames, files, env, pipe_vars, san>>

\* two requests with their documents' scripts; each request is about to
\* call extract_from_pdf (threads) or to read its upload (coroutines)
ConcInit(loop, start) ==
    /\ tasks = [i \in Inv |-> [NoTask EXCEPT !.pc = start]]
    /\ frames = [i \in Inv |-> NoFrame]
    /\ files = [p \in Paths |-> 0]
    /\ \E sc \in [Inv -> Scripts] :
          env = [script |-> sc,
                 job_of |-> [h \in Handles |-> 0],
                 checks |-> [h \in Handles |-> 0]]
    /\ sched = [loop |-> loop, running |-> 0]

\* two threads, each calling extract_from_pdf once, under every interleaving
InitThreads == PipeInit /\ san = SanIdle /\ ConcInit(FALSE, "call")

NextThreads ==
    \E i \in Inv :
        \/ CallOf(i)
        \/ CreateTempOf(i)
        \/ WriteTempOf(i)
        \/ SubmitOf(i)
        \/ StatusCheckOf(i)
        \/ SleepOf(i)
        \/ RetrieveOf(i)
        \/ FinallyOf(i)
        \/ GenerateOf(i)
        \/ HandleOf(i)

SpecThreads == InitThreads /\ [][NextThreads]_vars

\* two requests handled by extract_pdf on one event loop
InitLoop == PipeInit /\ san = SanIdle /\ ConcInit(TRUE, "read")

NextLoop ==
    \E i \in Inv :
        \/ Schedule(i)
        \/ ReadOf(i)
        \/ CallOf(i)
        \/ CreateTempOf(i)
        \/ WriteTempOf(i)
        \/ SubmitOf(i)
        \/ StatusCheckOf(i)
        \/ SleepOf(i)
        \/ RetrieveOf(i)
        \/ FinallyOf(i)
        \/ GenerateOf(i)
        \/ HandleOf(i)
        \/ RespondOf(i)

SpecLoop == InitLoop /\ [][NextLoop]_vars

-----------------------------------------------------------------------------
(* The specifications.                                                     *)

Init == PipeInit /\ san = SanIdle /\ ConcIdle

Next ==
    \/ CreateTemp
    \/ WriteTemp
    \/ Submit
    \/ StatusCheck
    \/ Sleep
    \/ Retrieve
    \/ Finally
    \/ Generate
    \/ Handle

Spec == Init /\ [][Next]_vars

\* the sanitizer on its own: the pipeline is not started
InitSanitizer == PipeInit /\ SanInit /\ ConcIdle

NextSanitizer ==
    \/ Clean /\ UNCHANGED <<pipe_vars, conc_vars>>
    \/ CleanAgain /\ UNCHANGED <<pipe_vars, conc_vars>>

SpecSanitizer == InitSanitizer /\ [][NextSanitizer]_vars

-----------------------------------------------------------------------------
(* Properties.                                                             *)

\* whisper_extract has returned or raised
PollerExited == pc \in {"generate", "handle", "returned", "raised"}

\* whisper_extract has returned a value
PollerReturned ==
    \/ pc = "generate"
    \/ pc \in {"handle", "returned", "raised"}
          /\ exc.origin \in {"none", "generate", "sanitize"}

\* the first terminal status reported was 'processed' / 'failed'
FirstTerminalProcessed == hist.term_at > 0 /\ status.status = "processed"

FirstTerminalFailed == hist.term_at > 0 /\ status.status = "failed"

\* C1: extract_from_pdf never lets a fault escape: whatever the temp file
\* operations and the remote calls raise (any Exception), the invocation
\* ends by returning a result dict, never by propagating the fault.
C1_NoFaultEscapes ==
    /\ pc # "raised"
    /\ pc = "returned" => result # NoResult /\ result.success \in BOOLEAN
    /\ pc = "handle" => except_clause(exc) # "none"

\* a failing write of the temp file ended as a returned failure result
C1_Witness ==
    /\ pc = "returned"
    /\ exc.origin = "tmp_write"
    /\ result.success = FALSE

\* C2: once whisper_extract has completed, on the success path and on every
\* failure path, the temp file it created does not exist.
C2_TempFileGone == PollerExited => ~tmp_exists

\* C3: at most 60 status checks are made; when the first 60 statuses
\* reported are all non-terminal there are exactly 60 checks, no retrieval,
\* and whisper_extract fails with the TimeoutError of the exhausted loop.
C3_PollBudget ==
    /\ calls.status <= 60
    /\ hist.reported <= 60
    /\ (hist.reported = 60 /\ hist.term_at = 0 /\ pc # "sleep") =>
          /\ pc \in {"finally", "handle", "returned"}
          /\ calls.status = 60
          /\ calls.retrieve = 0
          /\ exc.type = "TimeoutError"
          /\ exc.origin = "budget"

\* 60 non-terminal statuses ended as the timeout result
C3_Witness ==
    /\ pc = "returned"
    /\ hist.reported = 60
    /\ hist.term_at = 0
    /\ calls.status = 60
    /\ result.error = "PDF processing timeout"

\* C4: when the first terminal status is 'processed', reported at check k
\* (1 <= k <= 60), there are exactly k status checks, k - 1 waits and one
\* retrieval call, and whisper_extract returns the text that call gave.
C4_ProcessedReturnsText ==
    FirstTerminalProcessed =>
        /\ hist.term_at \in 1..60
        /\ calls.status = hist.term_at
        /\ calls.wait = hist.term_at - 1
        /\ calls.retrieve = (IF pc = "retrieve" THEN 0 ELSE 1)
        /\ (PollerExited /\ exc.origin # "retrieve") =>
              PollerReturned /\ text = hist.retrieved

\* [processing, processing, processed] with retrieval text "hello"
C4_Witness ==
    /\ pc = "generate"
    /\ FirstTerminalProcessed
    /\ hist.term_at = 3
    /\ calls.status = 3
    /\ calls.wait = 2
    /\ hist.retrieved = "hello"
    /\ text = "hello"

\* C5: when the first terminal status is 'failed', whisper_extract raises
\* RuntimeError("Whisperer failed: <message>"), with "Unknown error" for a
\* status that carries no message, and makes no retrieval call and no
\* further status check.
C5_FailedRaises ==
    FirstTerminalFailed =>
        /\ pc \in {"finally", "handle", "returned"}
        /\ exc.type = "RuntimeError"
        /\ exc.origin = "failed_status"
        /\ exc.msg = "Whisperer failed: " \o
              (IF "message" \in DOMAIN status THEN status.message ELSE "Unknown error")
        /\ calls.retrieve = 0
        /\ calls.status = hist.term_at

\* a 'failed' status without a message, at the second check
C5_Witness ==
    /\ pc = "handle"
    /\ FirstTerminalFailed
    /\ hist.term_at = 2
    /\ "message" \notin DOMAIN status
    /\ exc.msg = "Whisperer failed: Unknown error"

\* C6: the failure categories are exact: "PDF processing timeout" iff the
\* polling budget was exhausted, "PDF processing failed" iff the service
\* reported 'failed', and any other fault gives "Unexpected error" with
\* the fault's type name.
C6_ExactClassification ==
    (pc = "returned" /\ result.success = FALSE) =>
        /\ result.error = "PDF processing timeout" <=> exc.origin = "budget"
        /\ result.error = "PDF processing failed" <=> exc.origin = "failed_status"
        /\ exc.origin \notin {"none", "budget", "failed_status"} =>
              result.error = "Unexpected error" /\ result.type = exc.type

\* C7: clean_json_response is idempotent.
C7_Idempotent == san.pc = "twice" => san.twice = san.once

C9_NoFenceIsTrim ==
    (san.pc # "input" /\ ~HasFence(san.in)) => san.once = Strip(san.in)

\* a text with leading whitespace, a leading json word and a lone backtick
C9_Witness ==
    /\ san.pc = "once"
    /\ san.in = " json'{}"
    /\ san.once = "json'{}"

RecordKeys == {"invoice_number", "date", "vendor", "total_amount", "currency"}

\* a mapping with the five recognized keys, each a string or null
IsStructuredRecord(v) ==
    /\ v.t = "obj"
    /\ \A k \in RecordKeys :
          \E n \in 1..Len(v.v) : v.v[n][1] = k /\ v.v[n][2].t \in {"str", "null"}

\* C10: every success result carries a complete StructuredRecord; a
\* response that does not parse to one gives the parse-failure result.
C10_CompleteRecord ==
    (pc = "returned" /\ result.success = TRUE) => IsStructuredRecord(result.data)

\* the sanitized response and its parse, for a response the model gave
CleanedResponse == clean_json_response(hist.response)

\* extract_from_pdf returned after the structuring model answered with text
ParsedPath == pc = "returned" /\ exc = NoExc

\* C11: when extraction succeeded and the sanitized response is not valid
\* JSON, the result is the failure dict "Failed to parse JSON from Gemini"
\* with the sanitized response, the parser's diagnostic and the first 200
\* characters of the extracted text; nothing else runs, no call is repeated.
C11_ParseFailure ==
    (ParsedPath /\ ~json_loads(CleanedResponse).ok) =>
        /\ DOMAIN result = {"success", "error", "gemini_response", "parse_error",
                            "raw_text_preview"}
        /\ result.success = FALSE
        /\ result.error = "Failed to parse JSON from Gemini"
        /\ result.gemini_response = CleanedResponse
        /\ result.parse_error = decode_error_str(json_loads(CleanedResponse))
        /\ result.raw_text_preview = SubSeq(text, 1, Min(200, Len(text)))
        /\ calls.submit = 1 /\ calls.retrieve = 1 /\ calls.generate = 1
        /\ ~ENABLED Next

\* a response with two leading fences: the sanitized text differs from the
\* raw one and does not parse
C11_Witness ==
    /\ ParsedPath
    /\ hist.response = "''' '''{}"
    /\ result.success = FALSE
    /\ result.gemini_response = "'''{}"
    /\ Len(text) = 202
    /\ Len(result.raw_text_preview) = 200

\* C12: when extraction succeeded and the sanitized response parses, the
\* result is the success dict whose data is the parsed value and whose
\* preview is the prefix of the extracted text of length min(200, len).
C12_Success ==
    (ParsedPath /\ json_loads(CleanedResponse).ok) =>
        /\ DOMAIN result = {"success", "data", "raw_text_preview"}
        /\ result.success = TRUE
        /\ result.data = json_loads(CleanedResponse).val
        /\ text = hist.retrieved
        /\ Len(result.raw_text_preview) = Min(200, Len(text))
        /\ result.raw_text_preview = SubSeq(text, 1, Len(result.raw_text_preview))

\* the fenced full record, with a text longer than the preview
C12_Witness ==
    /\ ParsedPath
    /\ hist.response = "  '''json\n" \o FullRecord \o "\n'''  "
    /\ result.success = TRUE
    /\ result.data.t = "obj"
    /\ Len(result.data.v) = 5
    /\ Len(text) = 202
    /\ Len(result.raw_text_preview) = 200

\* C13: every returned result has the boolean key success; data is present
\* iff success is true and error is present iff success is false.
C13_OneVariant ==
    pc = "returned" =>
        /\ "success" \in DOMAIN result
        /\ result.success \in BOOLEAN
        /\ "data" \in DOMAIN result <=> result.success = TRUE
        /\ "error" \in DOMAIN result <=> result.success = FALSE

\* a failure result built by an except clause
C13_Witness ==
    /\ pc = "returned"
    /\ exc.origin = "retrieve"
    /\ result.success = FALSE
    /\ "error" \in DOMAIN result
    /\ "data" \notin DOMAIN result

TimeoutPath == exc.origin = "budget"

RemoteCalls(c) == <<c.submit, c.status, c.retrieve, c.generate>>

C16_Order ==
    /\ calls.submit <= 1 /\ calls.retrieve <= 1 /\ calls.generate <= 1
    /\ calls.status <= 60
    /\ calls.status > 0 => calls.submit = 1
    /\ calls.retrieve = 1 => calls.status >= 1 /\ status.status = "processed"
    /\ calls.generate = 1 => calls.retrieve = 1 /\ text = hist.retrieved

C16_Step ==
    /\ calls'.submit # calls.submit => calls.last = "none"
    /\ calls'.status # calls.status => calls.last \in {"submit", "status"}
    /\ calls'.retrieve # calls.retrieve =>
          calls.last = "status" /\ status.status = "processed"
    /\ calls'.generate # calls.generate =>
          calls.last = "retrieve" /\ exc = NoExc
    /\ (exc # NoExc \/ FirstTerminalFailed) => RemoteCalls(calls') = RemoteCalls(calls)

\* C16: the remote calls of an invocation are a prefix of submit, 1 to 60
\* status checks, retrieve, generate; retrieve comes right after a status
\* check that reported 'processed', generate after retrieve returned, and
\* after a fault or a 'failed' status no remote call is made.
C16_CallOrder == []C16_Order /\ [][C16_Step]_vars

\* the whole sequence, with three status checks
C16_Witness ==
    /\ pc = "returned"
    /\ RemoteCalls(calls) = <<1, 3, 1, 1>>
    /\ calls.last = "generate"

\* each step of the invocation that can be taken is eventually taken: every
\* remote call and every wait returns or raises
SpecLive == Spec /\ WF_vars(Next)

\* the polling loop was entered and has been left
LoopLeft == calls.status > 0 /\ pc \notin {"status", "sleep"}

\* C17: every invocation eventually returns a result, after at most 60
\* status checks, and the polling loop is left only on 'processed', on
\* 'failed' or on the exhausted budget.
C17_OnlyTerminalOrBudget ==
    /\ <>(pc = "returned")
    /\ [](calls.status <= 60)
    /\ [](LoopLeft => (hist.term_at > 0 \/ exc.origin = "budget"))

\* C17 (amended): every invocation eventually returns a result, after at
\* most 60 status checks, and the polling loop is left only on 'processed',
\* on 'failed', on the exhausted budget, or on a fault raised by a status
\* check.
C17_Terminates ==
    /\ <>(pc = "returned")
    /\ [](calls.status <= 60)
    /\ [](LoopLeft =>
            (hist.term_at > 0 \/ exc.origin = "budget" \/ exc.origin = "status"))

\* an invocation that left the loop on a faulting status check and returned
C17_Witness ==
    /\ pc = "returned"
    /\ exc.origin = "status"
    /\ calls.status = 2
    /\ hist.term_at = 0

\* C19: the temp file exists from before the submit call until
\* whisper_extract exits, and no generate call is made while it exists.
C19_TempConfined ==
    /\ pc \in {"submit", "status", "sleep", "retrieve", "finally"} => tmp_exists
    /\ pc = "generate" => ~tmp_exists

\* the result of extract_from_pdf for request i when no other request runs:
\* the statements of lines 92-157 against the script of its own document
AloneResult(i, s) ==
    CASE s.end \in {"create_fault", "write_fault"} ->
            handler_result(Exc("OSError", "No space left on device", s.end))
      [] s.end \in {"submit_fault", "status_fault", "retrieve_fault",
                    "generate_fault"} ->
            handler_result(Exc("ConnectionError", "boom", s.end))
      [] s.end = "failed" /\ s.at <= max_attempts ->
            handler_result(Exc("RuntimeError",
                "Whisperer failed: " \o status_message(StatusAt(s, s.at)), "alone"))
      [] s.end = "empty_answer" /\ s.at <= max_attempts ->
            handler_result(Exc("AttributeError",
                "'NoneType' object has no attribute 'strip'", "alone"))
      [] s.end = "processed" /\ s.at <= max_attempts ->
            parse_response(ModelAnswer(DocText(i)), DocText(i))
      [] OTHER ->
            handler_result(Exc("TimeoutError",
                "PDF processing timed out after 2 minutes", "alone"))

\* request i takes the step
Acts(i) == tasks'[i] # tasks[i]

C18_State ==
    /\ \A i \in Inv :
          /\ tasks[i].used \subseteq {tasks[i].own}
          /\ tasks[i].own # "" => JobOf(tasks[i].own) = i
          /\ tasks[i].pc = "returned" =>
                tasks[i].result = AloneResult(i, env.script[i])
    /\ tasks[1].own # "" => tasks[1].own # tasks[2].own

C18_Step ==
    \A i \in Inv, p \in Paths :
        (Acts(i) /\ files'[p] # files[p]) =>
            \/ files[p] = 0 /\ files'[p] = i /\ tasks[i].pc = "tmp_create"
            \/ /\ files[p] = i /\ files'[p] = 0
               /\ tasks[i].pc = "finally" /\ tasks[i].submits = 1

\* C18: under every interleaving of two invocations each one checks status
\* and retrieves only with the handle its own submit returned, creates and
\* deletes only its own temp file (and deletes it only after its submit
\* call), and returns the result it returns when run alone against the
\* same answers of the services.
C18_Independent == []C18_State /\ [][C18_Step]_vars

\* request 1 has returned its parsed record while request 2, with its own
\* file and job, is between its second status check and its retrieve
C18_Witness ==
    /\ ~sched.loop
    /\ tasks[1].pc = "returned"
    /\ tasks[1].result.success = TRUE
    /\ tasks[1].result.raw_text_preview = DocText(1)
    /\ tasks[1].used = {tasks[1].own}
    /\ tasks[2].pc = "retrieve"
    /\ tasks[2].used = {tasks[2].own}
    /\ env.checks[tasks[2].own] = 2
    /\ FileAt(frames[2].tmp_path) = 2
    /\ frames[1].tmp_path # frames[2].tmp_path

\* extract_from_pdf has been entered and has not returned
InPipeline(i) ==
    tasks[i].pc \in {"tmp_create", "tmp_write", "submit", "status", "sleep",
                     "retrieve", "finally", "generate", "handle"}

C20_State ==
    /\ Cardinality({i \in Inv : InPipeline(i)}) <= 1
    /\ \A i \in Inv : InPipeline(i) => sched.running = i

C20_Step ==
    \A i \in Inv : InPipeline(i) =>
        \A j \in Inv \ {i} : tasks'[j] = tasks[j] /\ frames'[j] = frames[j]

\* C20: on one event loop at most one invocation of extract_from_pdf is in
\* progress, and while it is, polling waits included, no other request
\* starts or takes any step.
C20_NoInterleaving == []C20_State /\ [][C20_Step]_vars

\* request 1 is in its third polling wait; request 2 has read its upload
\* and waits for the event loop
C20_Witness ==
    /\ sched.loop
    /\ sched.running = 1
    /\ tasks[1].pc = "sleep"
    /\ frames[1].attempt = 2
    /\ tasks[2].pc = "call"

=============================================================================
